---------------------------- MODULE Spec2Model ----------------------------
(***************************************************************************)
(* Model of crocoddyl's BoxQP solver (core/solvers/box-qp.hxx): the        *)
(* projected-Newton solver of  min 0.5 x'Hx + q'x  s.t.  lb <= x <= ub.    *)
(*                                                                         *)
(* The C++ doubles are modelled as exact rationals <<num, den>> (den > 0,  *)
(* lowest terms); vectors are sequences of rationals, matrices sequences   *)
(* of rows.  Index lists hold the 0-based indices of the source.  One      *)
(* solver object is modelled; `solve` is split at the points where a       *)
(* claim observes it: the call (argument checks and warm start), one       *)
(* outer iteration up to its return / throw / line search, and one trial   *)
(* step length of the line search.                                         *)
(***************************************************************************)
EXTENDS Integers, Sequences, FiniteSets, TLC

(***************************************************************************)
(* Exact rational arithmetic standing for double arithmetic.  An operation *)
(* binds the values of its operands once (x \in {a}) before it computes    *)
(* with them, as a C++ expression evaluates its operands once.             *)
(***************************************************************************)
AbsInt(a) == IF a < 0 THEN -a ELSE a

RECURSIVE GCD(_, _)
GCD(a, b) ==
  IF b = 0 THEN a ELSE CHOOSE r \in {GCD(b, m) : m \in {a % b}} : TRUE

NormBy(n, d, g) ==
  IF d < 0 THEN <<(-n) \div g, (-d) \div g>> ELSE <<n \div g, d \div g>>

\* The fraction n / d in lowest terms with a positive denominator.
Norm(n, d) ==
  CHOOSE r \in {NormBy(x, y, GCD(AbsInt(x), AbsInt(y))) : x \in {n}, y \in {d}} : TRUE

R(i) == <<i, 1>>
Zero == R(0)
One == R(1)
Half == <<1, 2>>

AddBy(a, b, g) ==
  Norm(a[1] * (b[2] \div g) + b[1] * (a[2] \div g), a[2] * (b[2] \div g))
Add(a, b) ==
  CHOOSE r \in {AddBy(x, y, GCD(x[2], y[2])) : x \in {a}, y \in {b}} : TRUE

Neg(a) == CHOOSE r \in {<<-x[1], x[2]>> : x \in {a}} : TRUE
Sub(a, b) == Add(a, Neg(b))

MulBy(a, b, g1, g2) ==
  Norm((a[1] \div g1) * (b[1] \div g2), (a[2] \div g2) * (b[2] \div g1))
Mul(a, b) ==
  CHOOSE r \in {MulBy(x, y, GCD(AbsInt(x[1]), y[2]), GCD(AbsInt(y[1]), x[2])) :
                  x \in {a}, y \in {b}} : TRUE

Inv(a) == CHOOSE r \in {Norm(x[2], x[1]) : x \in {a}} : TRUE
Div(a, b) == Mul(a, Inv(b))
Sign(a) ==
  CHOOSE r \in {IF x[1] > 0 THEN 1 ELSE IF x[1] < 0 THEN -1 ELSE 0 : x \in {a}} : TRUE
Lt(a, b) == Sign(Sub(a, b)) < 0
Le(a, b) == Sign(Sub(a, b)) <= 0
Gt(a, b) == Lt(b, a)
Ge(a, b) == Le(b, a)
\* std::min, std::max
Min(a, b) == CHOOSE r \in {IF Lt(y, x) THEN y ELSE x : x \in {a}, y \in {b}} : TRUE
Max(a, b) == CHOOSE r \in {IF Lt(x, y) THEN y ELSE x : x \in {a}, y \in {b}} : TRUE
Abs(a) == CHOOSE r \in {<<AbsInt(x[1]), x[2]>> : x \in {a}} : TRUE

(***************************************************************************)
(* Dense vectors and matrices (Eigen::VectorXd, Eigen::MatrixXd).          *)
(* As for the scalars, an operation F binds the values of its operands     *)
(* and computes FOf of them.                                               *)
(***************************************************************************)
RECURSIVE SumTo(_, _)
SumToOf(v, n) == IF n = 0 THEN Zero ELSE Add(SumTo(v, n - 1), v[n])
SumTo(v, n) ==
  CHOOSE r \in {SumToOf(w0, n0) : w0 \in {v}, n0 \in {n}} : TRUE

DotOf(u, v) == SumTo([i \in 1..Len(u) |-> Mul(u[i], v[i])], Len(u))
Dot(u, v) ==
  CHOOSE r \in {DotOf(u0, w0) : u0 \in {u}, w0 \in {v}} : TRUE
MatVecOf(M, v) == [i \in 1..Len(M) |-> Dot(M[i], v)]
MatVec(M, v) ==
  CHOOSE r \in {MatVecOf(M0, w0) : M0 \in {M}, w0 \in {v}} : TRUE
VecAddOf(u, v) == [i \in 1..Len(u) |-> Add(u[i], v[i])]
VecAdd(u, v) ==
  CHOOSE r \in {VecAddOf(u0, w0) : u0 \in {u}, w0 \in {v}} : TRUE
VecSubOf(u, v) == [i \in 1..Len(u) |-> Sub(u[i], v[i])]
VecSub(u, v) ==
  CHOOSE r \in {VecSubOf(u0, w0) : u0 \in {u}, w0 \in {v}} : TRUE

RECURSIVE MaxAbsTo(_, _)
MaxAbsToOf(v, n) == IF n = 0 THEN Zero ELSE Max(MaxAbsTo(v, n - 1), Abs(v[n]))
MaxAbsTo(v, n) ==
  CHOOSE r \in {MaxAbsToOf(w0, n0) : w0 \in {v}, n0 \in {n}} : TRUE

\* v.lpNorm<Eigen::Infinity>()
LpNormInf(v) == MaxAbsTo(v, Len(v))

Rows(M) == Len(M)
Cols(M) == IF Len(M) = 0 THEN 0 ELSE Len(M[1])


(***************************************************************************)
(* Eigen::LLT.  The factorization reads the lower triangle only and        *)
(* reports Success iff every pivot is positive (a 0 x 0 matrix succeeds).  *)
(* The pivots are those of the successive Schur complements.               *)
(***************************************************************************)
SchurOf(M) ==
  [i \in 1..(Len(M) - 1) |->
     [j \in 1..(Len(M) - 1) |->
        LET r == IF i >= j THEN i ELSE j
            c == IF i >= j THEN j ELSE i
        IN  Sub(M[r + 1][c + 1], Div(Mul(M[r + 1][1], M[c + 1][1]), M[1][1]))]]
Schur(M) ==
  CHOOSE r \in {SchurOf(M0) : M0 \in {M}} : TRUE

RECURSIVE LltOk(_)
LltOkOf(M) ==
  IF Len(M) = 0 THEN TRUE
  ELSE Gt(M[1][1], Zero) /\ LltOk(Schur(M))
LltOk(M) ==
  CHOOSE r \in {LltOkOf(M0) : M0 \in {M}} : TRUE

\* Hff_inv_.setIdentity(nf_, nf_); Hff_inv_llt_.solveInPlace(Hff_inv_):
\* the inverse of the symmetric matrix held in the lower triangle of M.
RECURSIVE LltInverse(_)
LltInverseOf(M) ==
  IF Len(M) = 0 THEN <<>>
  ELSE LET n    == Len(M)
           a    == M[1][1]
           b    == [i \in 1..(n - 1) |-> M[i + 1][1]]
           Cinv == LltInverse(Schur(M))
           w    == [i \in 1..(n - 1) |-> Div(Dot(Cinv[i], b), a)]
           top  == Add(Inv(a), Div(Dot(b, w), a))
       IN  [i \in 1..n |->
             [j \in 1..n |->
                IF i = 1 /\ j = 1 THEN top
                ELSE IF i = 1 THEN Neg(w[j - 1])
                ELSE IF j = 1 THEN Neg(w[i - 1])
                ELSE Cinv[i - 1][j - 1]]]
LltInverse(M) ==
  CHOOSE r \in {LltInverseOf(M0) : M0 \in {M}} : TRUE

(***************************************************************************)
(* The pieces of BoxQP::solve.                                             *)
(***************************************************************************)
\* x_(i) = std::max(std::min(xinit(i), ub(i)), lb(i))
WarmStart(xinit, lb, ub) ==
  [i \in 1..Len(xinit) |-> Max(Min(xinit[i], ub[i]), lb[i])]

\* g_ = q; g_.noalias() += H * x_
Gradient(H, q, x) == VecAdd(q, MatVec(H, x))

\* Variant: an index at a bound is clamped whatever the sign of its gradient.
IsClampedAtAnyBound(x, g, lb, ub, j) ==
  x[j + 1] = lb[j + 1] \/ x[j + 1] = ub[j + 1]

\* (xj == lbj && gj > 0.) || (xj == ubj && gj < 0.), j a 0-based index
IsClamped(x, g, lb, ub, j) ==
  \/ x[j + 1] = lb[j + 1] /\ Gt(g[j + 1], Zero)
  \/ x[j + 1] = ub[j + 1] /\ Lt(g[j + 1], Zero)

Indices(n) == [i \in 1..n |-> i - 1]

ClampedIdx(x, g, lb, ub) ==
  SelectSeq(Indices(Len(x)), LAMBDA j : IsClamped(x, g, lb, ub, j))

FreeIdx(x, g, lb, ub) ==
  SelectSeq(Indices(Len(x)), LAMBDA j : ~IsClamped(x, g, lb, ub, j))

\* g_.lpNorm<Eigen::Infinity>() <= th_grad_ || nf_ == 0
Converged(g, free, thgrad) == Le(LpNormInf(g), thgrad) \/ Len(free) = 0

\* M(i, j) = H(ri[i], ci[j])
BlockOf(H, ri, ci) ==
  [i \in 1..Len(ri) |-> [j \in 1..Len(ci) |-> H[ri[i] + 1][ci[j] + 1]]]
Block(H, ri, ci) ==
  CHOOSE r \in {BlockOf(H0, r0, c0) : H0 \in {H}, r0 \in {ri}, c0 \in {ci}} : TRUE

SubVecOf(v, idx) == [i \in 1..Len(idx) |-> v[idx[i] + 1]]
SubVec(v, idx) ==
  CHOOSE r \in {SubVecOf(w0, i0) : w0 \in {v}, i0 \in {idx}} : TRUE

\* if (reg_ != 0.) Hff_.diagonal().array() += reg_
AddRegOf(M, reg) ==
  IF reg = Zero THEN M
  ELSE [i \in 1..Len(M) |->
         [j \in 1..Len(M) |-> IF i = j THEN Add(M[i][j], reg) ELSE M[i][j]]]
AddReg(M, reg) ==
  CHOOSE r \in {AddRegOf(M0, g0) : M0 \in {M}, g0 \in {reg}} : TRUE

\* The regularized free-free block that is factorized.
Hff(H, free, reg) == AddReg(Block(H, free, free), reg)

\* Variant: the solved point is taken as the step (without dxf_ -= xf_).
NewtonFreeNoShift(H, q, x, free, clamped, HffInv) ==
  LET qf  == SubVec(q, free)
      xc  == SubVec(x, clamped)
      Hfc == Block(H, free, clamped)
      rhs == IF Len(clamped) # 0
               THEN VecSub([i \in 1..Len(free) |-> Neg(qf[i])], MatVec(Hfc, xc))
               ELSE [i \in 1..Len(free) |-> Neg(qf[i])]
  IN  MatVec(HffInv, rhs)

\* dxf_ = -qf_; if (nc_ != 0) dxf_ -= Hfc_ * xc_; solveInPlace(dxf_); dxf_ -= xf_
NewtonFree(H, q, x, free, clamped, HffInv) ==
  LET qf  == SubVec(q, free)
      xf  == SubVec(x, free)
      xc  == SubVec(x, clamped)
      Hfc == Block(H, free, clamped)
      rhs == IF Len(clamped) # 0
               THEN VecSub([i \in 1..Len(free) |-> Neg(qf[i])], MatVec(Hfc, xc))
               ELSE [i \in 1..Len(free) |-> Neg(qf[i])]
  IN  VecSub(MatVec(HffInv, rhs), xf)

\* dx_.setZero(); dx_(free_idx_[i]) = dxf_(i)
ScatterOf(n, free, dxf) ==
  [j \in 1..n |->
     IF \E i \in 1..Len(free) : free[i] = j - 1
       THEN dxf[CHOOSE i \in 1..Len(free) : free[i] = j - 1]
       ELSE Zero]
Scatter(n, free, dxf) ==
  CHOOSE r \in {ScatterOf(n0, f0, d0) : n0 \in {n}, f0 \in {free}, d0 \in {dxf}} : TRUE

\* dx_.lpNorm<Eigen::Infinity>() < th_grad_
Stalled(dx, thgrad) == Lt(LpNormInf(dx), thgrad)

\* 0.5 * x.dot(H * x) + q.dot(x)
Objective(H, q, x) == Add(Mul(Half, Dot(x, MatVec(H, x))), Dot(q, x))

\* Variant: the trial point is not projected onto the box.
TrialPointUnprojected(x, dx, steplength, lb, ub) ==
  [i \in 1..Len(x) |-> Add(x[i], Mul(steplength, dx[i]))]

\* xnew_(i) = std::max(std::min(x_(i) + steplength * dx_(i), ub(i)), lb(i))
TrialPoint(x, dx, steplength, lb, ub) ==
  [i \in 1..Len(x) |->
     Max(Min(Add(x[i], Mul(steplength, dx[i])), ub[i]), lb[i])]

\* Variant: every trial point is accepted.
AcceptStepAny(fold, fnew, th, g, x, xnew) == TRUE

\* fold - fnew > th_acceptstep_ * g_.dot(x_ - xnew_)
AcceptStep(fold, fnew, th, g, x, xnew) ==
  Gt(Sub(fold, fnew), Mul(th, Dot(g, VecSub(x, xnew))))

\* The step-length schedule built by the constructor.
n_alphas_ == 10

RECURSIVE Pow2(_)
Pow2(n) == IF n = 0 THEN 1 ELSE 2 * Pow2(n - 1)

alphas_ == [n \in 1..n_alphas_ |-> <<1, Pow2(n - 1)>>]

\* Variant: the convergence branch never refreshes Hff_inv_.
ConvergedInverseStale(kk, current, M) == current

\* if (k == 0) { ... Hff_inv_ = inverse of the free-free block } (lines 87-106):
\* the convergence branch refreshes Hff_inv_ in the first iteration only.
ConvergedInverse(kk, current, M) == IF kk = 0 THEN LltInverse(M) ELSE current

\* Variant: the iteration counter is not advanced.
NextIterationStuck(kk) == kk

\* ++k of `for (std::size_t k = 0; k < maxiter_; ++k)`
NextIteration(kk) == kk + 1

\* Variant: q is checked before H.
FirstBadArgQFirst(a, n) ==
  IF Len(a.q) # n THEN "q"
  ELSE IF Rows(a.H) # n \/ Cols(a.H) # n THEN "H"
  ELSE IF Len(a.lb) # n THEN "lb"
  ELSE IF Len(a.ub) # n THEN "ub"
  ELSE IF Len(a.xinit) # n THEN "xinit"
  ELSE ""

\* The first mis-sized argument, in the order of the checks; "" if none.
FirstBadArg(a, n) ==
  IF Rows(a.H) # n \/ Cols(a.H) # n THEN "H"
  ELSE IF Len(a.q) # n THEN "q"
  ELSE IF Len(a.lb) # n THEN "lb"
  ELSE IF Len(a.ub) # n THEN "ub"
  ELSE IF Len(a.xinit) # n THEN "xinit"
  ELSE ""


(***************************************************************************)
(* State.                                                                  *)
(***************************************************************************)
VARIABLES
  nx_, maxiter_, th_acceptstep_, th_grad_, reg_,  \* construction settings
  x_, xnew_, g_, dx_,                             \* iterate state
  clamped_idx_, free_idx_,                        \* active-set partition
  Hff_inv_,                                       \* last computed inverse
  solution_,                                      \* the returned BoxQPSolution
  arg,        \* arguments of the current / most recent call of solve
  pc,         \* "idle" | "loop" (head of the for loop) | "search" (line search)
  k,          \* outer iteration counter of the current call
  it,         \* position of the line-search iterator in alphas_ (1-based)
  fold,       \* objective at x_ computed before the line search
  status,     \* how the most recent call ended; "running" while inside solve
  errArg,     \* argument named by the invalid-argument exception
  profile,    \* which arguments the caller draws from
  callsLeft,  \* correctly sized calls the caller may still make
  memo        \* history: the <<arguments, returned Solution>> of each return, in order

vars == <<nx_, maxiter_, th_acceptstep_, th_grad_, reg_, x_, xnew_, g_, dx_,
          clamped_idx_, free_idx_, Hff_inv_, solution_, arg, pc, k, it, fold,
          status, errArg, profile, callsLeft, memo>>

params == <<nx_, maxiter_, th_acceptstep_, th_grad_, reg_>>

(***************************************************************************)
(* Bounds and input sets.                                                  *)
(***************************************************************************)
MaxIter == 2      \* maxiter_ ranges over 0..MaxIter
MaxSolves == 3    \* calls of solve on one solver in the reuse profile

Dims == {1, 2}
AcceptThresholds == {<<1, 10>>, Half, <<9, 10>>, <<3, 2>>}
GradThresholds == {<<1, 2>>, R(2)}
Regs == {Zero, One}

IntVec(v) == [i \in 1..Len(v) |-> R(v[i])]
IntMat(M) == [i \in 1..Len(M) |-> IntVec(M[i])]

Args(H, q, lb, ub, xinit) ==
  [H |-> H, q |-> q, lb |-> lb, ub |-> ub, xinit |-> xinit]

HSet(n) ==
  IF n = 1 THEN {IntMat(<< <<2>> >>), IntMat(<< <<1>> >>), << <<Neg(Half)>> >>}
  ELSE {IntMat(<< <<2, 1>>, <<1, 2>> >>), IntMat(<< <<1, 1>>, <<1, -1>> >>)}

QSet(n) ==
  IF n = 1 THEN {IntVec(<<-4>>), IntVec(<<0>>)}
  ELSE {IntVec(<<-4, -4>>), IntVec(<<-1, -1>>), IntVec(<<-4, 1>>)}

\* <<lb, ub>>: unit box, a box with lb > ub, and bounds no iterate reaches.
Wide == 100
BoxSet(n) ==
  IF n = 1 THEN {<<IntVec(<<0>>), IntVec(<<1>>)>>,
                 <<IntVec(<<1>>), IntVec(<<0>>)>>,
                 <<IntVec(<<-Wide>>), IntVec(<<Wide>>)>>}
  ELSE {<<IntVec(<<0, 0>>), IntVec(<<1, 1>>)>>,
        <<IntVec(<<0, 0>>), IntVec(<<2, 2>>)>>,
        <<IntVec(<<-Wide, -Wide>>), IntVec(<<Wide, Wide>>)>>}

XinitSet(n) ==
  IF n = 1 THEN {IntVec(<<-1>>), IntVec(<<0>>), <<Half>>, IntVec(<<1>>), IntVec(<<3>>)}
  ELSE {IntVec(<<0, 0>>), IntVec(<<2, 0>>), IntVec(<<1, 3>>)}

ValidArgs(n) ==
  {Args(H, q, b[1], b[2], xi) :
     H \in HSet(n), q \in QSet(n), b \in BoxSet(n), xi \in XinitSet(n)}

\* The arguments of the reuse profile: a few problems solved again and again.
ReuseArgs(n) ==
  IF n = 1
    THEN {Args(IntMat(<< <<2>> >>), IntVec(<<-4>>), IntVec(<<0>>), IntVec(<<1>>), xi) :
            xi \in {IntVec(<<0>>), IntVec(<<1>>)}}
         \cup {Args(IntMat(<< <<2>> >>), IntVec(<<0>>), IntVec(<<-Wide>>),
                    IntVec(<<Wide>>), IntVec(<<3>>)),
               Args(<< <<Neg(Half)>> >>, IntVec(<<-4>>), IntVec(<<-Wide>>),
                    IntVec(<<Wide>>), IntVec(<<-4>>))}
    ELSE {Args(IntMat(<< <<2, 1>>, <<1, 2>> >>), IntVec(<<-4, -4>>), IntVec(<<0, 0>>),
               IntVec(<<1, 1>>), IntVec(<<0, 0>>)),
          Args(IntMat(<< <<2, 1>>, <<1, 2>> >>), IntVec(<<-4, 1>>), IntVec(<<0, 0>>),
               IntVec(<<2, 2>>), IntVec(<<2, 0>>)),
          Args(IntMat(<< <<1, 1>>, <<1, -1>> >>), IntVec(<<-1, -1>>), IntVec(<<0, 0>>),
               IntVec(<<2, 2>>), IntVec(<<2, 0>>))}

ArgPool(n) == IF profile = "reuse" THEN ReuseArgs(n) ELSE ValidArgs(n)

ZeroVec(n) == [i \in 1..n |-> Zero]
ZeroMat(r, c) == [i \in 1..r |-> ZeroVec(c)]

\* Mis-sized calls: <<H rows, H cols, q, lb, ub, xinit>> as offsets from nx_.
BadDims ==
  {<<1, 1, 0, 0, 0, 0>>, <<0, 1, 0, 0, 0, 0>>, <<0, 0, 1, 0, 0, 0>>,
   <<0, 0, 0, 1, 0, 0>>, <<0, 0, 0, 0, 1, 0>>, <<0, 0, 0, 0, 0, 1>>,
   <<0, 0, 0, 1, 0, 1>>, <<1, 1, 1, 1, 1, 1>>}

\* The reuse profile interleaves two kinds of mis-sized call only.
ReuseBadDims == {<<1, 1, 0, 0, 0, 0>>, <<0, 0, 0, 1, 0, 1>>}

BadArgs(n) ==
  {Args(ZeroMat(n + d[1], n + d[2]), ZeroVec(n + d[3]), ZeroVec(n + d[4]),
        ZeroVec(n + d[5]), ZeroVec(n + d[6])) :
     d \in IF profile = "reuse" THEN ReuseBadDims ELSE BadDims}

NoArgs == Args(<<>>, <<>>, <<>>, <<>>, <<>>)

\* A default-constructed BoxQPSolution.
EmptySolution == [Hff_inv |-> <<>>, x |-> <<>>, free_idx |-> <<>>, clamped_idx |-> <<>>]

\* solution_.Hff_inv = Hff_inv_; solution_.x = x_; ... (the four assignments
\* before every `return solution_`)
MakeSolution(HffInv, x, free, clamped) ==
  [Hff_inv |-> HffInv, x |-> x, free_idx |-> free, clamped_idx |-> clamped]

(***************************************************************************)
(* Construction.  x_(nx), xnew_(nx), g_(nx), dx_(nx) are allocated, not    *)
(* initialized: their content is any value (two patterns are tried).       *)
(***************************************************************************)
Uninit(n) == {ZeroVec(n), [i \in 1..n |-> R(7)]}

Construct(calls, prof, thresholds) ==
  /\ nx_ \in Dims
  /\ maxiter_ \in 0..MaxIter
  /\ th_acceptstep_ \in thresholds
  /\ th_grad_ \in GradThresholds
  /\ reg_ \in Regs
  /\ \E u \in Uninit(nx_) : x_ = u /\ xnew_ = u /\ g_ = u /\ dx_ = u
  /\ clamped_idx_ = <<>>
  /\ free_idx_ = <<>>
  /\ Hff_inv_ = <<>>
  /\ solution_ = EmptySolution
  /\ arg = NoArgs
  /\ pc = "idle"
  /\ k = 0
  /\ it = 0
  /\ fold = Zero
  /\ status = "none"
  /\ errArg = ""
  /\ profile = prof
  /\ callsLeft = calls
  /\ memo = <<>>

Init == Construct(1, "single", AcceptThresholds)

(***************************************************************************)
(* solve: argument checks (lines 38-57) and feasible warm start (59-62).   *)
(***************************************************************************)
SolveInvalid ==
  /\ pc = "idle"
  /\ \E a \in BadArgs(nx_) :
       /\ FirstBadArg(a, nx_) # ""
       /\ arg' = a
       /\ errArg' = FirstBadArg(a, nx_)
  /\ status' = "InvalidArgument"
  /\ UNCHANGED <<params, x_, xnew_, g_, dx_, clamped_idx_, free_idx_, Hff_inv_,
                 solution_, pc, k, it, fold, profile, callsLeft, memo>>

SolveStart ==
  /\ pc = "idle"
  /\ callsLeft > 0
  /\ \E a \in ArgPool(nx_) :
       /\ FirstBadArg(a, nx_) = ""
       /\ arg' = a
       /\ x_' = WarmStart(a.xinit, a.lb, a.ub)
  /\ k' = 0
  /\ pc' = "loop"
  /\ status' = "running"
  /\ errArg' = ""
  /\ callsLeft' = callsLeft - 1
  /\ UNCHANGED <<params, xnew_, g_, dx_, clamped_idx_, free_idx_, Hff_inv_,
                 solution_, it, fold, profile, memo>>

(***************************************************************************)
(* One outer iteration (lines 65-163), up to its return, throw or the      *)
(* start of the line search.                                               *)
(***************************************************************************)
IterG == Gradient(arg.H, arg.q, x_)
IterClamped == ClampedIdx(x_, IterG, arg.lb, arg.ub)
IterFree == FreeIdx(x_, IterG, arg.lb, arg.ub)
IterHff == Hff(arg.H, IterFree, reg_)
IterDx ==
  Scatter(nx_, IterFree,
          NewtonFree(arg.H, arg.q, x_, IterFree, IterClamped, LltInverse(IterHff)))

Return(st, sol) ==
  /\ solution_' = sol
  /\ memo' = Append(memo, <<arg, sol>>)
  /\ status' = st
  /\ pc' = "idle"

Throw(st) ==
  /\ status' = st
  /\ pc' = "idle"
  /\ UNCHANGED <<solution_, memo>>

\* lines 86-112
ReturnConverged ==
  /\ pc = "loop" /\ k < maxiter_
  /\ Converged(IterG, IterFree, th_grad_)
  /\ k = 0 => LltOk(IterHff)
  /\ g_' = IterG
  /\ clamped_idx_' = IterClamped
  /\ free_idx_' = IterFree
  /\ Hff_inv_' = ConvergedInverse(k, Hff_inv_, IterHff)
  /\ Return("ConvergedByGradient",
            MakeSolution(Hff_inv_', x_, IterFree, IterClamped))
  /\ UNCHANGED <<params, x_, xnew_, dx_, arg, k, it, fold, errArg, profile, callsLeft>>

\* lines 98-103
ThrowAtConvergence ==
  /\ pc = "loop" /\ k < maxiter_
  /\ Converged(IterG, IterFree, th_grad_)
  /\ k = 0 /\ ~LltOk(IterHff)
  /\ g_' = IterG
  /\ clamped_idx_' = IterClamped
  /\ free_idx_' = IterFree
  /\ Throw("FactorizationFailed")
  /\ UNCHANGED <<params, x_, xnew_, dx_, Hff_inv_, arg, k, it, fold, errArg,
                 profile, callsLeft>>

\* lines 137-142
ThrowAtNewton ==
  /\ pc = "loop" /\ k < maxiter_
  /\ ~Converged(IterG, IterFree, th_grad_)
  /\ ~LltOk(IterHff)
  /\ g_' = IterG
  /\ clamped_idx_' = IterClamped
  /\ free_idx_' = IterFree
  /\ Throw("FactorizationFailed")
  /\ UNCHANGED <<params, x_, xnew_, dx_, Hff_inv_, arg, k, it, fold, errArg,
                 profile, callsLeft>>

\* lines 143-163
ReturnStalled ==
  /\ pc = "loop" /\ k < maxiter_
  /\ ~Converged(IterG, IterFree, th_grad_)
  /\ LltOk(IterHff)
  /\ Stalled(IterDx, th_grad_)
  /\ g_' = IterG
  /\ clamped_idx_' = IterClamped
  /\ free_idx_' = IterFree
  /\ Hff_inv_' = LltInverse(IterHff)
  /\ dx_' = IterDx
  /\ Return("ConvergedByStall",
            MakeSolution(Hff_inv_', x_, IterFree, IterClamped))
  /\ UNCHANGED <<params, x_, xnew_, arg, k, it, fold, errArg, profile, callsLeft>>

\* lines 143-166: the Newton direction is kept and the line search begins
StartLineSearch ==
  /\ pc = "loop" /\ k < maxiter_
  /\ ~Converged(IterG, IterFree, th_grad_)
  /\ LltOk(IterHff)
  /\ ~Stalled(IterDx, th_grad_)
  /\ g_' = IterG
  /\ clamped_idx_' = IterClamped
  /\ free_idx_' = IterFree
  /\ Hff_inv_' = LltInverse(IterHff)
  /\ dx_' = IterDx
  /\ fold' = Objective(arg.H, arg.q, x_)
  /\ it' = 1
  /\ pc' = "search"
  /\ UNCHANGED <<params, x_, xnew_, solution_, arg, k, status, errArg, profile,
                 callsLeft, memo>>

(***************************************************************************)
(* One trial step length of the line search (lines 167-177).               *)
(***************************************************************************)
Trial == TrialPoint(x_, dx_, alphas_[it], arg.lb, arg.ub)
TrialAccepted ==
  AcceptStep(fold, Objective(arg.H, arg.q, Trial), th_acceptstep_, g_, x_, Trial)

\* the test holds: x_ = xnew_; break; then ++k
TryStepAccept ==
  /\ pc = "search"
  /\ TrialAccepted
  /\ xnew_' = Trial
  /\ x_' = Trial
  /\ k' = NextIteration(k)
  /\ it' = 0
  /\ fold' = Zero
  /\ pc' = "loop"
  /\ UNCHANGED <<params, g_, dx_, clamped_idx_, free_idx_, Hff_inv_, solution_, arg,
                 status, errArg, profile, callsLeft, memo>>

\* the test fails: ++it; after the last step length the loop ends and ++k
TryStepReject ==
  /\ pc = "search"
  /\ ~TrialAccepted
  /\ xnew_' = Trial
  /\ IF it < Len(alphas_)
       THEN /\ it' = it + 1
            /\ UNCHANGED <<k, fold, pc>>
       ELSE /\ it' = 0
            /\ fold' = Zero
            /\ k' = NextIteration(k)
            /\ pc' = "loop"
  /\ UNCHANGED <<params, x_, g_, dx_, clamped_idx_, free_idx_, Hff_inv_, solution_,
                 arg, status, errArg, profile, callsLeft, memo>>

\* lines 179-183: the iteration budget is used up
ReturnBudget ==
  /\ pc = "loop" /\ ~(k < maxiter_)
  /\ Return("ExhaustedBudget",
            MakeSolution(Hff_inv_, x_, free_idx_, clamped_idx_))
  /\ UNCHANGED <<params, x_, xnew_, g_, dx_, clamped_idx_, free_idx_, Hff_inv_, arg,
                 k, it, fold, errArg, profile, callsLeft>>

Next ==
  \/ SolveInvalid
  \/ SolveStart
  \/ ReturnConverged
  \/ ThrowAtConvergence
  \/ ThrowAtNewton
  \/ ReturnStalled
  \/ StartLineSearch
  \/ TryStepAccept
  \/ TryStepReject
  \/ ReturnBudget

Spec == Init /\ [][Next]_vars

\* One solver object used for several solves drawn from a few problems.
InitReuse == Construct(MaxSolves, "reuse", {<<1, 10>>, <<9, 10>>})
SpecReuse == InitReuse /\ [][Next]_vars

\* Inside solve the code runs on: every step of a call in progress is taken.
InSolveStep ==
  \/ ReturnConverged \/ ThrowAtConvergence \/ ThrowAtNewton \/ ReturnStalled
  \/ StartLineSearch \/ TryStepAccept \/ TryStepReject \/ ReturnBudget
InitFair == Construct(1, "reuse", {<<1, 10>>, <<3, 2>>})
SpecFair == InitFair /\ [][Next]_vars /\ WF_vars(InSolveStep)


(***************************************************************************)
(* Vocabulary of the properties.                                           *)
(***************************************************************************)
\* The most recent call returned a Solution (solution_ answers arg).
Returned == status \in {"ConvergedByGradient", "ConvergedByStall", "ExhaustedBudget"}
InSolve == pc # "idle"

InBox(x, lb, ub) ==
  /\ Len(x) = Len(lb)
  /\ \A j \in 1..Len(x) : Le(lb[j], x[j]) /\ Le(x[j], ub[j])

BoxOrdered(a) == \A j \in 1..Len(a.lb) : Le(a.lb[j], a.ub[j])

SeqRange(sq) == {sq[i] : i \in 1..Len(sq)}

(***************************************************************************)
(* C1  Feasibility.                                                        *)
(***************************************************************************)
\* C1 (as claimed): for every correctly sized call, the iterate after the warm
\* start and after every outer iteration, and the x of every returned
\* Solution, satisfies lb_j <= x_j <= ub_j for every j.
C1_FeasibleAlways ==
  /\ InSolve => InBox(x_, arg.lb, arg.ub)
  /\ Returned => InBox(solution_.x, arg.lb, arg.ub)

\* C1 (amended): the same, for calls whose bounds satisfy lb_j <= ub_j for
\* every j (the box is not empty).
C1_FeasibleInOrderedBox ==
  /\ (InSolve /\ BoxOrdered(arg)) => InBox(x_, arg.lb, arg.ub)
  /\ (Returned /\ BoxOrdered(arg)) => InBox(solution_.x, arg.lb, arg.ub)

\* C1 witness: a Solution returned after two accepted line-search steps whose
\* projection clipped a coordinate onto the upper bound of a non-empty box.
C1_Witness ==
  /\ Returned /\ BoxOrdered(arg) /\ k = 2
  /\ \E j \in 1..nx_ :
       /\ solution_.x[j] = arg.ub[j]
       /\ Gt(Add(arg.xinit[j], dx_[j]), arg.ub[j])
       /\ Lt(arg.xinit[j], arg.ub[j])

(***************************************************************************)
(* C2  Bound consistency.                                                  *)
(***************************************************************************)
\* C2: in every returned Solution, free_idx and clamped_idx are disjoint and
\* together hold every index 0..n-1 exactly once, and every clamped index j has
\* x_j equal to lb_j or ub_j.
C2_BoundConsistency ==
  Returned =>
    /\ SeqRange(solution_.free_idx) \cap SeqRange(solution_.clamped_idx) = {}
    /\ SeqRange(solution_.free_idx) \cup SeqRange(solution_.clamped_idx) = 0..(nx_ - 1)
    /\ Len(solution_.free_idx) + Len(solution_.clamped_idx) = nx_
    /\ \A i \in 1..Len(solution_.clamped_idx) :
         LET j == solution_.clamped_idx[i] + 1
         IN  solution_.x[j] = arg.lb[j] \/ solution_.x[j] = arg.ub[j]

(***************************************************************************)
(* C3  Dimension validation.                                               *)
(***************************************************************************)
MisSized(a, name) ==
  CASE name = "H" -> Rows(a.H) # nx_ \/ Cols(a.H) # nx_
    [] name = "q" -> Len(a.q) # nx_
    [] name = "lb" -> Len(a.lb) # nx_
    [] name = "ub" -> Len(a.ub) # nx_
    [] name = "xinit" -> Len(a.xinit) # nx_

CheckOrder == <<"H", "q", "lb", "ub", "xinit">>

\* C3: a call (a step taken from outside solve, with arguments arg') with a
\* mis-sized argument ends with the invalid-argument condition naming the first
\* mis-sized argument in the order H, q, lb, ub, xinit; no iteration runs, and
\* the iterate, the index lists, the cached inverse and the previously returned
\* Solution are unchanged.
C3_DimensionValidation ==
  [][(pc = "idle" /\ \E i \in 1..5 : MisSized(arg', CheckOrder[i]))
       => /\ status' = "InvalidArgument"
          /\ \E i \in 1..5 :
               /\ errArg' = CheckOrder[i]
               /\ MisSized(arg', CheckOrder[i])
               /\ \A h \in 1..(i - 1) : ~MisSized(arg', CheckOrder[h])
          /\ pc' = "idle"
          /\ UNCHANGED <<x_, xnew_, g_, dx_, clamped_idx_, free_idx_, Hff_inv_,
                         solution_, k, memo>>]_vars

\* C3 witness: a call with mis-sized lb and xinit, made after an earlier solve
\* returned a Solution, has failed naming lb.
C3_Witness ==
  /\ status = "InvalidArgument" /\ errArg = "lb"
  /\ Len(arg.xinit) # nx_ /\ Len(arg.q) = nx_
  /\ Len(memo) = 1 /\ solution_ = memo[1][2] /\ Len(solution_.x) = nx_


(***************************************************************************)
(* C4  Monotonic objective.                                                *)
(***************************************************************************)
\* A symmetric matrix is positive semidefinite: each pivot is positive, or is
\* zero with a zero column below it, and so on for the remaining block.
RECURSIVE PosSemiDef(_)
PosSemiDef(M) ==
  IF Len(M) = 0 THEN TRUE
  ELSE IF Gt(M[1][1], Zero) THEN PosSemiDef(Schur(M))
  ELSE /\ M[1][1] = Zero
       /\ \A i \in 2..Len(M) : M[i][1] = Zero
       /\ PosSemiDef([i \in 1..(Len(M) - 1) |->
                        [j \in 1..(Len(M) - 1) |-> M[i + 1][j + 1]]])

ObjectiveAt(x) == Objective(arg.H, arg.q, x)

\* C4 (as claimed): whenever the line search replaces x by an accepted trial
\* point, the objective 0.5 x'Hx + q'x does not increase, for every H,
\* acceptance threshold and regularization.
C4_MonotoneAlways ==
  [][pc = "search" => Le(ObjectiveAt(x_'), ObjectiveAt(x_))]_vars

\* C4 (amended): an accepted trial point does not increase the objective when
\* the acceptance threshold lies in [0, 1] and the free-free block of H itself
\* (without the regularization) is positive semidefinite at that iteration.
C4_MonotoneOnConvexFreeBlock ==
  [][(/\ pc = "search"
      /\ Ge(th_acceptstep_, Zero) /\ Le(th_acceptstep_, One)
      /\ PosSemiDef(Block(arg.H, free_idx_, free_idx_)))
       => Le(ObjectiveAt(x_'), ObjectiveAt(x_))]_vars

\* C4 witness: a second accepted step has strictly decreased the objective of
\* a problem solved with a positive regularization and a clipped coordinate.
C4_Witness ==
  /\ pc = "loop" /\ k = 2 /\ reg_ # Zero
  /\ Le(th_acceptstep_, One)
  /\ PosSemiDef(Block(arg.H, free_idx_, free_idx_))
  /\ x_ = xnew_
  /\ Lt(ObjectiveAt(x_), ObjectiveAt(WarmStart(arg.xinit, arg.lb, arg.ub)))
  /\ \E j \in 1..nx_ : x_[j] = arg.ub[j]

(***************************************************************************)
(* C5  The returned inverse matches the returned partition.                *)
(***************************************************************************)
Identity(n) == [i \in 1..n |-> [j \in 1..n |-> IF i = j THEN One ELSE Zero]]

\* Minv is the n x n inverse of the n x n matrix M.
IsInverseOf(Minv, M) ==
  /\ Len(Minv) = Len(M)
  /\ \A i \in 1..Len(Minv) : Len(Minv[i]) = Len(M)
  /\ [i \in 1..Len(M) |->
       [j \in 1..Len(M) |->
          Dot(M[i], [h \in 1..Len(M) |-> Minv[h][j]])]] = Identity(Len(M))

\* C5: in every returned Solution, Hff_inv is the inverse of the regularized
\* free-free block of H for the free index set of the same Solution (an
\* nf x nf matrix, nf the number of returned free indices).
C5_InverseMatchesPartition ==
  Returned =>
    IsInverseOf(solution_.Hff_inv, Hff(arg.H, solution_.free_idx, reg_))

(***************************************************************************)
(* C6  Factorization failure propagation.                                  *)
(***************************************************************************)
\* C6: an outer iteration whose regularized free-free block is not
\* positive-definite ends the solve with the numerical-failure condition.
C6_FailurePropagation ==
  [][(pc = "loop" /\ k < maxiter_ /\ ~LltOk(IterHff))
       => status' = "FactorizationFailed"]_vars


(***************************************************************************)
(* C7  Single active bound.                                                *)
(***************************************************************************)
\* The problem n = 1, H = [[2]], q = [-4], lb = [0], ub = [1].
SingleBoundProblem ==
  /\ nx_ = 1
  /\ arg.H = IntMat(<< <<2>> >>) /\ arg.q = IntVec(<<-4>>)
  /\ arg.lb = IntVec(<<0>>) /\ arg.ub = IntVec(<<1>>)

ClampedAtUpper ==
  solution_.x = IntVec(<<1>>) /\ solution_.clamped_idx = <<0>> /\ solution_.free_idx = <<>>

\* C7 (as claimed): with zero regularization, 0 < acceptance threshold < 1,
\* gradient tolerance <= 1 and maxiter >= 1, solve of the single-bound problem
\* returns, for any warm start, x = [1] with clamped set {0} and an empty free
\* set.
C7_SingleBoundAnyBudget ==
  (/\ Returned /\ SingleBoundProblem /\ reg_ = Zero
   /\ Gt(th_acceptstep_, Zero) /\ Lt(th_acceptstep_, One)
   /\ Le(th_grad_, One) /\ maxiter_ >= 1)
    => ClampedAtUpper

\* C7 (amended): the same result, for an acceptance threshold in (0, 3/4) and an
\* iteration budget maxiter >= 2.
C7_SingleBoundTwoIterations ==
  (/\ Returned /\ SingleBoundProblem /\ reg_ = Zero
   /\ Gt(th_acceptstep_, Zero) /\ Lt(th_acceptstep_, <<3, 4>>)
   /\ Le(th_grad_, One) /\ maxiter_ >= 2)
    => ClampedAtUpper

\* C7 witness: the single-bound problem, started strictly inside the box, has
\* returned x = [1] clamped after one accepted full step.
C7_Witness ==
  /\ Returned /\ SingleBoundProblem /\ reg_ = Zero /\ maxiter_ >= 2
  /\ Lt(th_acceptstep_, <<3, 4>>) /\ Le(th_grad_, One)
  /\ arg.xinit = <<Half>> /\ k = 1
  /\ ClampedAtUpper

(***************************************************************************)
(* C8  Unconstrained reduction.                                            *)
(***************************************************************************)
WideBounds ==
  /\ arg.lb = [i \in 1..nx_ |-> R(-Wide)]
  /\ arg.ub = [i \in 1..nx_ |-> R(Wide)]

\* x is the unconstrained minimizer: q + H x = 0.
IsMinimizer(x) == Gradient(arg.H, arg.q, x) = ZeroVec(nx_)

\* The unconstrained minimizer -H^{-1} q by a direct linear solve.
DirectSolve == MatVec(LltInverse(arg.H), [i \in 1..nx_ |-> Neg(arg.q[i])])

\* C8 (as claimed): for positive-definite H, zero regularization, bounds that
\* never clip, any warm start, an acceptance threshold in (0, 1) and
\* maxiter >= 1, the returned x is the unconstrained minimizer -H^{-1} q.
C8_UnconstrainedAlways ==
  (/\ Returned /\ WideBounds /\ LltOk(arg.H) /\ reg_ = Zero
   /\ Gt(th_acceptstep_, Zero) /\ Lt(th_acceptstep_, One) /\ maxiter_ >= 1)
    => solution_.x = DirectSolve

\* C8 (amended): under the same conditions with the acceptance threshold in
\* (0, 1/2), the returned x is the unconstrained minimizer unless the warm start
\* already meets a stopping tolerance (the max-norm of its gradient is
\* <= th_grad, or its Newton step to the minimizer is < th_grad in max-norm); in
\* that case the warm start itself is returned.
C8_UnconstrainedFullStep ==
  (/\ Returned /\ WideBounds /\ LltOk(arg.H) /\ reg_ = Zero
   /\ Gt(th_acceptstep_, Zero) /\ Lt(th_acceptstep_, Half) /\ maxiter_ >= 1)
    => IF \/ Le(LpNormInf(Gradient(arg.H, arg.q, arg.xinit)), th_grad_)
          \/ Lt(LpNormInf(VecSub(DirectSolve, arg.xinit)), th_grad_)
         THEN solution_.x = arg.xinit
         ELSE solution_.x = DirectSolve /\ IsMinimizer(solution_.x)

\* C8 witness: a two-dimensional unconstrained problem started away from its
\* minimizer has returned the minimizer, which differs from the warm start.
C8_Witness ==
  /\ Returned /\ WideBounds /\ LltOk(arg.H) /\ reg_ = Zero /\ nx_ = 2
  /\ Gt(th_acceptstep_, Zero) /\ Lt(th_acceptstep_, Half) /\ maxiter_ >= 1
  /\ solution_.x # arg.xinit
  /\ solution_.x = DirectSolve
  /\ IsMinimizer(solution_.x)


(***************************************************************************)
(* C9  No hidden state between calls.                                      *)
(***************************************************************************)
\* C9: the Solution a call returns depends on the construction settings and on
\* the arguments of that call only: any two returns of one solver for equal
\* arguments, whatever was solved before or in between, carry equal Solutions
\* (x, free and clamped index lists and inverse).
C9_NoHiddenState ==
  \A i \in 1..Len(memo) : \A j \in 1..Len(memo) :
    memo[i][1] = memo[j][1] => memo[i][2] = memo[j][2]

\* C9 witness: the same arguments were solved first and third, convergence
\* being detected in the first iteration, with a different problem that left
\* another iterate, partition and inverse in the solver solved in between.
C9_Witness ==
  /\ Len(memo) = 3 /\ status = "ConvergedByGradient" /\ k = 0
  /\ memo[1][1] = memo[3][1] /\ memo[2][1] # memo[1][1]
  /\ memo[2][2].x # memo[1][2].x
  /\ memo[2][2].free_idx # memo[1][2].free_idx
  /\ memo[2][2].Hff_inv # memo[1][2].Hff_inv


(***************************************************************************)
(* C10  Bounded termination.                                               *)
(***************************************************************************)
TerminalStates ==
  {"ConvergedByGradient", "ConvergedByStall", "ExhaustedBudget", "FactorizationFailed"}

\* C10: every correctly sized call ends in exactly one of ConvergedByGradient,
\* ConvergedByStall, ExhaustedBudget, FactorizationFailed after at most maxiter
\* outer iterations; a line search tries at most 10 step lengths, in the
\* decreasing order 1, 1/2, ..., 1/2^9; an iteration that accepts none leaves x
\* unchanged and uses up one iteration; a budget exhaustion returns the iterate
\* as it stands after exactly maxiter iterations.
C10_BoundedTermination ==
  /\ [](/\ k <= maxiter_
        /\ pc = "search" =>
             /\ k < maxiter_
             /\ it \in 1..10
             /\ alphas_[it] = <<1, Pow2(it - 1)>>)
  /\ [][(pc = "search" /\ pc' = "search")
          => (it' = it + 1 /\ Lt(alphas_[it'], alphas_[it]) /\ k' = k)]_vars
  /\ [][(pc = "search" /\ x_' = x_ /\ pc' = "loop")
          => (it = 10 /\ k' = k + 1)]_vars
  /\ [][(pc = "search" /\ x_' # x_) => (pc' = "loop" /\ k' = k + 1)]_vars
  /\ [][status = "running" => status' \in TerminalStates \cup {"running"}]_vars
  /\ [](status = "ExhaustedBudget" => (k = maxiter_ /\ solution_.x = x_))
  /\ (status = "running" ~> status \in TerminalStates)

\* C10 witness: a budget of two iterations was used up by two line searches
\* that accepted no step length, and the unchanged warm start was returned.
C10_Witness ==
  /\ status = "ExhaustedBudget" /\ maxiter_ = 2 /\ k = 2
  /\ Len(free_idx_) > 0
  /\ solution_.x = WarmStart(arg.xinit, arg.lb, arg.ub)
  /\ xnew_ = TrialPoint(x_, dx_, alphas_[10], arg.lb, arg.ub)
  /\ dx_ # ZeroVec(nx_)

=============================================================================
